---- MODULE Spec2Model ----
(***************************************************************************)
(* Model of container-remote: the PathSet (Mounted), the Mount Staging     *)
(* Space (MountSpace), the Container Handle (DockerEnv) and the Remote     *)
(* Execution Environment (DockerEnvRemote).                                *)
(*                                                                         *)
(* A path is a sequence of segments and a segment is a sequence of         *)
(* character codes (ASCII), so that ordering by segments and ordering by   *)
(* the raw string are different things.                                    *)
(***************************************************************************)
EXTENDS Integers, Sequences, FiniteSets, TLC

VARIABLES
    mounted,        \* Mounted.mounted: the dict, as a sequence of [source, staging] in dict order
    added,          \* history: the sources Mounted.add was called with
    last,           \* history: the last operation, its arguments and its outcome
    tmpfs,          \* the directories under TMP_ROOT, by staging root
    staging_root,   \* MountSpace.staging_root
    containers,     \* the runtime: every container, running or stopped
    nextId,         \* the runtime: the id the next container gets
    container,      \* DockerEnv.container (NoContainer for None)
    flags,          \* DockerEnv.flags: image, name and volumes
    callerVolumes,  \* the caller's volume list object (the list flags['volumes'] aliases)
    supplied,       \* history: the caller's volume list when the constructor was called
    remote_root,    \* DockerEnvRemote.remote_root
    remote_cwd,     \* DockerEnvRemote.remote_cwd
    remote_container, \* DockerEnvRemote.remote_container
    pc,             \* position of DockerEnvRemote.__init__ and of the command loop
    requested,      \* the mounts argument of the constructor
    pending,        \* the mounts the loop of the constructor has not reached yet
    issued,         \* history: the runtime requests of the construction, in order
    cmd,            \* the argument of remote(): its kind (str, list, tuple) and value
    forwarded,      \* what remote() did: raised, or the argv handed to execute
    other_root,     \* staging_root of a second MountSpace instance (NoRoot: none yet)
    teardown        \* history: what the finally block of the command loop has done

pathVars == <<mounted, added>>
fsVars == <<tmpfs, staging_root>>
runtimeVars == <<containers, nextId>>
handleVars == <<container, flags>>
envVars == <<callerVolumes, supplied, remote_root, remote_cwd, remote_container,
             pc, requested, pending, issued>>
remoteVars == <<cmd, forwarded>>
auxVars == <<other_root, teardown>>
vars == <<mounted, added, last, tmpfs, staging_root, containers, nextId, container,
          flags, callerVolumes, supplied, remote_root, remote_cwd, remote_container,
          pc, requested, pending, issued, cmd, forwarded, other_root, teardown>>

(***************************************************************************)
(* Bounds                                                                  *)
(***************************************************************************)
MaxAdds == 4
MaxStaged == 3      \* directories staged under one staging root
MaxClock == 2       \* distinct readings of time.time()
MaxPieces == 4      \* pieces a command string is put together from
MaxTokens == 3      \* tokens of a command given as a sequence
MaxIds == 5         \* container ids the runtime hands out
MaxVolumes == 3     \* pairs in the volume list a caller keeps using

(***************************************************************************)
(* Paths                                                                   *)
(***************************************************************************)
\* segments: "a", "b", "bc", "b-c", "c", "l"
SegA == <<97>>
SegB == <<98>>
SegBC == <<98, 99>>
SegBdashC == <<98, 45, 99>>
SegC == <<99>>
SegL == <<108>>

\* the host sources of the model: /a, /a/b, /a/b/c, /a/b-c, /a/bc, /c, /l, /l/c
Sources ==
    { <<SegA>>, <<SegA, SegB>>, <<SegA, SegB, SegC>>, <<SegA, SegBdashC>>,
      <<SegA, SegBC>>, <<SegC>>, <<SegL>>, <<SegL, SegC>> }

\* the host has one symbolic link: /l -> /a/b
LinkName == <<SegL>>
LinkTarget == <<SegA, SegB>>

\* staging destinations handed to Mounted.add
Stagings == { <<SegA>>, <<SegB>> }

\* pathlib.Path.resolve(): the absolute path with symbolic links followed
Resolve(p) ==
    IF Len(p) >= 1 /\ SubSeq(p, 1, 1) = LinkName
    THEN LinkTarget \o SubSeq(p, 2, Len(p))
    ELSE p

\* str < str: lexicographic on characters
RECURSIVE StrLess(_, _)
StrLess(s, t) ==
    IF s = <<>> THEN t # <<>>
    ELSE IF t = <<>> THEN FALSE
    ELSE IF Head(s) # Head(t) THEN Head(s) < Head(t)
    ELSE StrLess(Tail(s), Tail(t))

\* str(path): the segments joined by "/" (the root as the leading "/")
RECURSIVE PathStr(_)
PathStr(p) == IF p = <<>> THEN <<>> ELSE <<47>> \o Head(p) \o PathStr(Tail(p))

\* A plausible slip: ordering paths by their string form
PathLessByString(p, q) == StrLess(PathStr(p), PathStr(q))

\* PurePath.__lt__: lexicographic on the list of segments
RECURSIVE PathLess(_, _)
PathLess(p, q) ==
    IF p = <<>> THEN q # <<>>
    ELSE IF q = <<>> THEN FALSE
    ELSE IF Head(p) # Head(q) THEN StrLess(Head(p), Head(q))
    ELSE PathLess(Tail(p), Tail(q))

\* A plausible slip: prefix test on the string form (str.startswith)
IsRelativeToByString(p, q) ==
    LET s == PathStr(p)
        t == PathStr(q)
    IN  Len(t) <= Len(s) /\ SubSeq(s, 1, Len(t)) = t

\* PurePath.is_relative_to: q's segments are a prefix of p's segments
IsRelativeTo(p, q) ==
    Len(q) <= Len(p) /\ SubSeq(p, 1, Len(q)) = q


(***************************************************************************)
(* Mounted (PathSet)                                                       *)
(***************************************************************************)
Keys(m) == { m[i].source : i \in 1..Len(m) }

\* sorted(..., key=lambda p: p.resolve()): stable, so an element goes after
\* every element whose key is not greater
RECURSIVE SortedInsert(_, _)
SortedInsert(x, s) ==
    IF s = <<>> THEN <<x>>
    ELSE IF PathLess(Resolve(x), Resolve(Head(s))) THEN <<x>> \o s
    ELSE <<Head(s)>> \o SortedInsert(x, Tail(s))

\* A plausible slip: the sort left out, dict order used as it is
UnsortedKeys(m) == [i \in 1..Len(m) |-> m[i].source]

RECURSIVE SortedFrom(_, _)
SortedFrom(m, acc) ==
    IF m = <<>> THEN acc ELSE SortedFrom(Tail(m), SortedInsert(Head(m).source, acc))

\* source_list = sorted(self.mounted.keys(), key=lambda p: p.resolve())
SortedKeys(m) == SortedFrom(m, <<>>)

\* the loop of concentrate: keep a path unless it is relative to the last kept one
RECURSIVE CheckedPaths(_, _)
CheckedPaths(source_list, checked_paths) ==
    IF source_list = <<>> THEN checked_paths
    ELSE IF checked_paths = <<>>
            \/ ~IsRelativeTo(Resolve(Head(source_list)),
                             Resolve(checked_paths[Len(checked_paths)]))
         THEN CheckedPaths(Tail(source_list), Append(checked_paths, Head(source_list)))
         ELSE CheckedPaths(Tail(source_list), checked_paths)

\* self.mounted[path]
Lookup(m, path) == (CHOOSE i \in 1..Len(m) : m[i].source = path)

\* Mounted.concentrate
Concentrate(m) ==
    LET checked_paths == CheckedPaths(SortedKeys(m), <<>>)
    IN  [i \in 1..Len(checked_paths) |->
            [source |-> checked_paths[i], staging |-> m[Lookup(m, checked_paths[i])].staging]]

\* self.mounted[key] = value: overwrite in place, or append a new key
DictSet(m, key, value) ==
    IF key \in Keys(m)
    THEN [i \in 1..Len(m) |-> IF m[i].source = key THEN [source |-> key, staging |-> value] ELSE m[i]]
    ELSE Append(m, [source |-> key, staging |-> value])

\* Mounted.add
MountedAdd(m, key, value) == Concentrate(DictSet(m, key, value))

\* no operation has been called yet
NoCall == [op |-> "none"]

\* remote() has not been called
NoCmd == [kind |-> "none", value |-> <<>>]
NotCalled == [called |-> FALSE, raised |-> FALSE, argv |-> <<>>]

\* None, for a container reference, a name and a volume list
NoContainer == 0
NoName == <<>>
NoVolumes == "none"
NoFlags == [image |-> <<>>, name |-> NoName, volumes |-> <<>>]

\* no environment and no container handle has been constructed
NoEnvironment ==
    /\ containers = {}
    /\ nextId = 1
    /\ container = NoContainer
    /\ flags = NoFlags
    /\ callerVolumes = NoVolumes
    /\ supplied = <<>>
    /\ remote_root = ""
    /\ remote_cwd = ""
    /\ remote_container = NoContainer
    /\ pc = "none"
    /\ requested = <<>>
    /\ pending = <<>>
    /\ issued = <<>>
    /\ cmd = NoCmd
    /\ forwarded = NotCalled
    /\ other_root = <<>>
    /\ teardown = <<>>

(***************************************************************************)
(* The host filesystem                                                     *)
(***************************************************************************)
SegM == <<109>>
SegImg == <<105, 109, 103>>
SegAlp == <<97, 108, 112>>
SegTmp == <<116, 109, 112>>

\* a source that does not exist on the host: /m
Missing == <<SegM>>

\* the sources handed to MountSpace.add: /a, /a/b, /a/b/c, /c, /l, /m
MountSources ==
    { <<SegA>>, <<SegA, SegB>>, <<SegA, SegB, SegC>>, <<SegC>>, <<SegL>>, Missing }

\* os.path.exists(source) for the sources of the model
HostExists(p) == Resolve(p) # Missing

\* pathlib.Path.name: the final path component
Name(p) == p[Len(p)]

\* the name argument of MountSpace, and the readings of time.time()
SpaceNames == { SegImg, SegAlp }
Clock == 1..MaxClock

\* TMP_ROOT = '/tmp'
TMP_ROOT == <<SegTmp>>

\* uniqle_tag = sha256(str(time.time())).hexdigest()[:8]: a function of the
\* clock reading, here one character per reading
UniqleTag(now) == <<48 + now>>

\* staging_root = os.path.join(TMP_ROOT, name + '_' + uniqle_tag)
StagingRoot(name, now) == TMP_ROOT \o <<name \o <<95>> \o UniqleTag(now)>>

Roots == { StagingRoot(n, t) : n \in SpaceNames, t \in Clock }
NoRoot == <<>>

\* a directory: whether it exists and, by entry name, what was copied into it
\* (from: the tree it was copied from, <<>> for content of an earlier run;
\*  complete: whether the copy ran to its end)
Absent == [exists |-> FALSE, content |-> {}]
EmptyDir == [exists |-> TRUE, content |-> {}]
StaleDir == [exists |-> TRUE, content |-> {[name |-> SegA, from |-> <<>>, complete |-> TRUE]}]

EntryNames(dir) == { e.name : e \in dir.content }

\* A plausible slip: rmtree called without the exists() test in front of it
RmTreeUnchecked(dir) == [raised |-> ~dir.exists, dir |-> Absent]

\* shutil.rmtree(path): raises FileNotFoundError when path does not exist
RmTree(dir) ==
    IF dir.exists THEN [raised |-> FALSE, dir |-> Absent]
                  ELSE [raised |-> TRUE, dir |-> dir]

\* os.makedirs(path): raises FileExistsError when path exists, OSError when
\* the filesystem refuses (io = "fail")
MakeDirs(dir, io) ==
    IF dir.exists \/ io = "fail" THEN [raised |-> TRUE, dir |-> dir]
                                 ELSE [raised |-> FALSE, dir |-> EmptyDir]

\* what the filesystem does to a call: it works, it refuses at the start,
\* or it fails part of the way through a copy
IoOutcomes == { "ok", "fail", "interrupted" }

\* A plausible slip: copytree(..., dirs_exist_ok=True), which copies over a
\* destination that exists
CopyTreeOverwriting(dir, src, name, io) ==
    IF ~HostExists(src) \/ io = "fail"
    THEN [raised |-> TRUE, dir |-> dir]
    ELSE [raised |-> io # "ok",
          dir |-> [exists |-> TRUE,
                   content |-> { e \in dir.content : e.name # name } \cup
                       {[name |-> name, from |-> src, complete |-> (io = "ok")]}]]

\* shutil.copytree(src, staging_root/name): raises when src is missing (before
\* anything is created), when the destination exists, or when the filesystem
\* fails; the missing parents of the destination are created; an interrupted
\* copy leaves the part already copied
CopyTree(dir, src, name, io) ==
    IF ~HostExists(src) \/ (dir.exists /\ name \in EntryNames(dir)) \/ io = "fail"
    THEN [raised |-> TRUE, dir |-> dir]
    ELSE [raised |-> io # "ok",
          dir |-> [exists |-> TRUE,
                   content |-> dir.content \cup
                       {[name |-> name, from |-> src, complete |-> (io = "ok")]}]]

(***************************************************************************)
(* MountSpace                                                              *)
(***************************************************************************)
\* A plausible slip: makedirs(exist_ok=True) with no rmtree in front of it
InitStagingKeeping(dir, io) ==
    IF io = "fail" THEN [raised |-> TRUE, dir |-> dir]
                   ELSE [raised |-> FALSE, dir |-> [exists |-> TRUE, content |-> dir.content]]

\* MountSpace.init_staging
InitStagingResult(dir, io) ==
    LET cleared == IF dir.exists THEN RmTree(dir) ELSE [raised |-> FALSE, dir |-> dir]
        made == MakeDirs(cleared.dir, io)
    IN  IF cleared.raised THEN cleared ELSE made

\* A plausible slip: remove_staging without the exists() test
RemoveStagingUnchecked(dir) == RmTreeUnchecked(dir)

\* MountSpace.remove_staging
RemoveStagingResult(dir) ==
    IF dir.exists THEN RmTree(dir) ELSE [raised |-> FALSE, dir |-> dir]

\* MountSpace.add up to the copy: source_abspath, staging and shutil.copytree
AddCopy(dir, source, io) == CopyTree(dir, Resolve(source), Name(source), io)

\* A plausible slip: the entry recorded before the copy is known to have worked
AddRecordEager(m, source, copied) == MountedAdd(m, Resolve(source), <<Name(source)>>)

\* MountSpace.add after the copy: self.mounted.add(source_abspath, staging_abspath),
\* reached only when copytree did not raise
AddRecord(m, source, copied) ==
    IF copied.raised THEN m ELSE MountedAdd(m, Resolve(source), <<Name(source)>>)

InitStaging(io) ==
    LET r == InitStagingResult(tmpfs[staging_root], io)
    IN  /\ tmpfs' = [tmpfs EXCEPT ![staging_root] = r.dir]
        /\ last' = [op |-> "init_staging", raised |-> r.raised,
                    before |-> tmpfs[staging_root]]
        /\ UNCHANGED <<mounted, added, staging_root, runtimeVars, handleVars, envVars, remoteVars, auxVars>>

RemoveStaging ==
    LET r == RemoveStagingResult(tmpfs[staging_root])
    IN  /\ tmpfs' = [tmpfs EXCEPT ![staging_root] = r.dir]
        /\ last' = [op |-> "remove_staging", raised |-> r.raised,
                    before |-> tmpfs[staging_root],
                    again |-> (last.op = "remove_staging")]
        /\ UNCHANGED <<mounted, added, staging_root, runtimeVars, handleVars, envVars, remoteVars, auxVars>>

Add(source, io) ==
    LET copied == AddCopy(tmpfs[staging_root], source, io)
    IN  /\ Cardinality(tmpfs[staging_root].content) < MaxStaged
        /\ tmpfs' = [tmpfs EXCEPT ![staging_root] = copied.dir]
        /\ mounted' = AddRecord(mounted, source, copied)
        /\ added' = IF copied.raised THEN added ELSE added \cup {Resolve(source)}
        /\ last' = [op |-> "add", source |-> source, raised |-> copied.raised,
                    before |-> tmpfs[staging_root], mountedBefore |-> mounted]
        /\ UNCHANGED <<staging_root, runtimeVars, handleVars, envVars, remoteVars, auxVars>>

\* MountSpace.__init__ has run: the staging root is set, nothing is staged;
\* a directory of an earlier run may be in the way
InitSpace ==
    /\ staging_root \in Roots
    /\ \E d \in {Absent, EmptyDir, StaleDir} :
            tmpfs = [r \in Roots |-> IF r = staging_root THEN d ELSE Absent]
    /\ mounted = <<>>
    /\ added = {}
    /\ last = NoCall
    /\ NoEnvironment

NextSpace ==
    \/ \E io \in {"ok", "fail"} : InitStaging(io)
    \/ \E source \in MountSources, io \in IoOutcomes : Add(source, io)
    \/ RemoveStaging

SpecSpace == InitSpace /\ [][NextSpace]_vars

(***************************************************************************)
(* Two MountSpace instances alive at the same time: the one of SpecSpace   *)
(* and a second one, constructed while the first is in use                 *)
(***************************************************************************)
\* MountSpace(name) constructed when time.time() reads now; the clock does
\* not run backwards, and two readings may be equal
OtherSpace(name, now) ==
    /\ other_root = NoRoot
    /\ \E n \in SpaceNames, t \in Clock : staging_root = StagingRoot(n, t) /\ t <= now
    /\ other_root' = StagingRoot(name, now)
    /\ last' = [op |-> "other_MountSpace"]
    /\ UNCHANGED <<pathVars, fsVars, runtimeVars, handleVars, envVars, remoteVars, teardown>>

\* init_staging of the second instance
OtherInitStaging(io) ==
    LET r == InitStagingResult(tmpfs[other_root], io)
    IN  /\ other_root # NoRoot
        /\ tmpfs' = [tmpfs EXCEPT ![other_root] = r.dir]
        /\ last' = [op |-> "other_init_staging", raised |-> r.raised,
                    peerBefore |-> tmpfs[staging_root]]
        /\ UNCHANGED <<mounted, added, staging_root, runtimeVars, handleVars, envVars,
                       remoteVars, auxVars>>

\* remove_staging of the second instance (called by hand or by __del__)
OtherRemoveStaging ==
    LET r == RemoveStagingResult(tmpfs[other_root])
    IN  /\ other_root # NoRoot
        /\ tmpfs' = [tmpfs EXCEPT ![other_root] = r.dir]
        /\ last' = [op |-> "other_remove_staging", raised |-> r.raised,
                    peerBefore |-> tmpfs[staging_root]]
        /\ UNCHANGED <<mounted, added, staging_root, runtimeVars, handleVars, envVars,
                       remoteVars, auxVars>>

NextTwo ==
    \/ \E io \in {"ok", "fail"} : InitStaging(io)
    \/ \E source \in {<<SegA>>, <<SegC>>}, io \in {"ok", "fail"} : Add(source, io)
    \/ RemoveStaging
    \/ \E name \in SpaceNames, now \in Clock : OtherSpace(name, now)
    \/ \E io \in {"ok", "fail"} : OtherInitStaging(io)
    \/ OtherRemoveStaging

SpecTwo == InitSpace /\ [][NextTwo]_vars

(***************************************************************************)
(* The container runtime (python_on_whales docker), as the handle uses it  *)
(***************************************************************************)
\* container names: "web", "web2"
Web == <<119, 101, 98>>
Web2 == <<119, 101, 98, 50>>

\* the name the runtime makes up for a container launched without one
AutoName(id) == <<95, id>>

Ids(cs) == { c.id : c \in cs }

\* the name filter of docker ps: the filter value occurs in the container's name
NameMatches(f, n) ==
    \E i \in 1..(Len(n) - Len(f) + 1) : SubSeq(n, i, i + Len(f) - 1) = f

\* docker.ps(all=True, filters={'name': name})
Ps(cs, info) == { c \in cs : NameMatches(info, c.name) }

\* what the runtime does to a request: "ok" it works ("ok" on a container that
\* is gone is not an error), "strict" it works but a target that is gone is an
\* error, "fail" the daemon refuses
RtOutcomes == { "ok", "strict", "fail" }

\* docker.remove(containers=targets, force=True)
DockerRemove(cs, targets, rt) ==
    IF rt = "fail" THEN [raised |-> TRUE, containers |-> cs]
    ELSE [raised |-> (rt = "strict" /\ ~(targets \subseteq Ids(cs))),
          containers |-> { c \in cs : c.id \notin targets }]

\* docker.run(**flags): a name in use is a conflict
DockerRun(cs, id, fl, rt) ==
    IF rt = "fail" \/ (fl.name # NoName /\ \E c \in cs : c.name = fl.name)
    THEN [raised |-> TRUE, containers |-> cs]
    ELSE [raised |-> FALSE,
          containers |-> cs \cup
              {[id |-> id,
                name |-> IF fl.name = NoName THEN AutoName(id) ELSE fl.name,
                volumes |-> fl.volumes,
                owner |-> "handle"]}]

(***************************************************************************)
(* DockerEnv (Container Handle)                                            *)
(***************************************************************************)
\* self.container_info: {'name': name} when the flags name the container
ContainerInfo(fl) == fl.name

\* the state a call of run_container starts in
Entering(cs, cont) ==
    [containers |-> cs, container |-> cont, calls |-> <<>>,
     raised |-> FALSE, error |-> "none", returned |-> FALSE]

\* A plausible slip: the matches are looked up but never removed
LookupStageKeeping(st, info, force_rerun, rt) ==
    IF info = NoName THEN st
    ELSE [st EXCEPT !.calls = Append(@, [req |-> "ps", targets |-> {}])]

\* A plausible slip: with force_rerun false the first match is adopted
\* however many there are
LookupStageAdoptAny(st, info, force_rerun, rt) ==
    IF info = NoName THEN st
    ELSE
      LET existing == Ps(st.containers, info)
          st1 == [st EXCEPT !.calls = Append(@, [req |-> "ps", targets |-> {}])]
      IN  IF existing = {} THEN st1
          ELSE IF force_rerun
          THEN LET r == DockerRemove(st1.containers, Ids(existing), rt)
               IN  [st1 EXCEPT !.containers = r.containers,
                               !.calls = Append(@, [req |-> "remove", targets |-> Ids(existing)]),
                               !.raised = r.raised,
                               !.error = IF r.raised THEN "runtime" ELSE "none"]
          ELSE [st1 EXCEPT !.container = CHOOSE i \in Ids(existing) : TRUE,
                           !.returned = TRUE]

\* A plausible slip: the matches are removed whatever force_rerun says
LookupStageAlwaysForce(st, info, force_rerun, rt) ==
    IF info = NoName THEN st
    ELSE
      LET existing == Ps(st.containers, info)
          st1 == [st EXCEPT !.calls = Append(@, [req |-> "ps", targets |-> {}])]
      IN  IF existing = {} THEN st1
          ELSE LET r == DockerRemove(st1.containers, Ids(existing), rt)
               IN  [st1 EXCEPT !.containers = r.containers,
                               !.calls = Append(@, [req |-> "remove", targets |-> Ids(existing)]),
                               !.raised = r.raised,
                               !.error = IF r.raised THEN "runtime" ELSE "none"]

\* run_container, the lookup: if self.container_info: ... (the first block)
LookupStage(st, info, force_rerun, rt) ==
    IF info = NoName THEN st
    ELSE
      LET existing == Ps(st.containers, info)
          st1 == [st EXCEPT !.calls = Append(@, [req |-> "ps", targets |-> {}])]
      IN  IF existing = {} THEN st1
          ELSE IF force_rerun
          THEN LET r == DockerRemove(st1.containers, Ids(existing), rt)
               IN  [st1 EXCEPT !.containers = r.containers,
                               !.calls = Append(@, [req |-> "remove", targets |-> Ids(existing)]),
                               !.raised = r.raised,
                               !.error = IF r.raised THEN "runtime" ELSE "none"]
          ELSE IF Cardinality(existing) = 1
          THEN [st1 EXCEPT !.container = CHOOSE i \in Ids(existing) : TRUE,
                           !.returned = TRUE]
          ELSE [st1 EXCEPT !.raised = TRUE, !.error = "multiple"]

\* run_container: if force_rerun and self.container: docker.remove(...)
RemoveCurrentStage(st, force_rerun, rt) ==
    IF st.raised \/ st.returned THEN st
    ELSE IF force_rerun /\ st.container # NoContainer
    THEN LET r == DockerRemove(st.containers, {st.container}, rt)
         IN  [st EXCEPT !.containers = r.containers,
                        !.calls = Append(@, [req |-> "remove", targets |-> {st.container}]),
                        !.raised = r.raised,
                        !.error = IF r.raised THEN "runtime" ELSE "none"]
    ELSE st

\* run_container: if force_rerun or not self.container: self.container = docker.run(...)
CreateStage(st, force_rerun, id, fl, rt) ==
    IF st.raised \/ st.returned THEN st
    ELSE IF force_rerun \/ st.container = NoContainer
    THEN LET r == DockerRun(st.containers, id, fl, rt)
         IN  [st EXCEPT !.containers = r.containers,
                        !.calls = Append(@, [req |-> "run", targets |-> {id}]),
                        !.container = IF r.raised THEN @ ELSE id,
                        !.raised = r.raised,
                        !.error = IF r.raised THEN "runtime" ELSE "none"]
    ELSE st

\* DockerEnv.run_container; rts: the runtime's answer to each of its requests
RunContainerResult(cs, cont, fl, id, force_rerun, rts) ==
    CreateStage(
        RemoveCurrentStage(
            LookupStage(Entering(cs, cont), ContainerInfo(fl), force_rerun, rts[1]),
            force_rerun, rts[2]),
        force_rerun, id, fl, rts[3])

\* A plausible slip: remove_container without the try/except around the
\* runtime request
RemoveContainerPropagating(cs, cont, arg, rt) ==
    LET target == IF arg # NoContainer THEN arg ELSE cont
    IN  IF target = NoContainer
        THEN [result |-> TRUE, raised |-> FALSE, rtFailed |-> FALSE,
              containers |-> cs, container |-> cont, calls |-> <<>>]
        ELSE LET r == DockerRemove(cs, {target}, rt)
             IN  [result |-> TRUE, raised |-> r.raised, rtFailed |-> r.raised,
                  containers |-> r.containers,
                  container |-> IF ~r.raised /\ target = cont THEN NoContainer ELSE cont,
                  calls |-> <<[req |-> "remove", targets |-> {target}]>>]

\* DockerEnv.remove_container; arg: container_or_info (NoContainer for None).
\* rtFailed: docker.remove raised; raised: the call itself raised (the except
\* clause catches every Exception of the request, so it never does)
RemoveContainerResult(cs, cont, arg, rt) ==
    LET target == IF arg # NoContainer THEN arg ELSE cont
    IN  IF target = NoContainer
        THEN [result |-> TRUE, raised |-> FALSE, rtFailed |-> FALSE,
              containers |-> cs, container |-> cont, calls |-> <<>>]
        ELSE LET r == DockerRemove(cs, {target}, rt)
             IN  [result |-> ~r.raised, raised |-> FALSE, rtFailed |-> r.raised,
                  containers |-> r.containers,
                  container |-> IF ~r.raised /\ target = cont THEN NoContainer ELSE cont,
                  calls |-> <<[req |-> "remove", targets |-> {target}]>>]

\* the record of a run_container call
RunRecord(st, fl, force_rerun, ctor) ==
    [op |-> "run_container", force_rerun |-> force_rerun, ctor |-> ctor,
     raised |-> st.raised, error |-> st.error, calls |-> st.calls,
     matched |-> IF ContainerInfo(fl) = NoName THEN {}
                 ELSE Ids(Ps(containers, ContainerInfo(fl))),
     containersBefore |-> containers, containerBefore |-> container]

(***************************************************************************)
(* DockerEnvRemote (Remote Execution Environment)                          *)
(***************************************************************************)
\* an image with a tag: "img:1"
ImgTagged == SegImg \o <<58, 49>>

\* image.split(':')[0]
RECURSIVE BeforeColon(_)
BeforeColon(s) ==
    IF s = <<>> \/ Head(s) = 58 THEN <<>> ELSE <<Head(s)>> \o BeforeColon(Tail(s))

\* the mounts arguments of the model: none, one, an ancestor after its
\* descendant, two sources with one final component, a missing source
MountLists ==
    { <<>>,
      << <<SegA>> >>,
      << <<SegA, SegB>>, <<SegA>> >>,
      << <<SegC>>, <<SegA, SegB, SegC>> >>,
      << Missing >> }

\* remote_root or '/remote_root'
DefaultRemoteRoot == "/remote_root"

\* a bind mount of the caller's
OtherPair == [src |-> <<SegC>>, dst |-> "/data"]

\* the image, remote_root ("" for None) and volumes arguments of the model:
\* no 'volumes' flag, an empty list, a list of one pair
EnvArgs ==
    { [image |-> SegImg, root |-> "", vols |-> NoVolumes],
      [image |-> ImgTagged, root |-> "/work", vols |-> <<>>],
      [image |-> SegAlp, root |-> "", vols |-> <<OtherPair>>] }

\* the runtime's answers to the three requests of run_container (a target of
\* the first removal was just listed and a launch has no target, so "strict"
\* differs from "ok" in the second request only)
RtPlans == {"ok", "fail"} \X RtOutcomes \X {"ok", "fail"}

\* A plausible slip: the staging pair put in front of the caller's pairs
LaunchVolumesPrepending(vols, pair) ==
    <<pair>> \o (IF vols = NoVolumes THEN <<>> ELSE vols)

\* self.flags['volumes'] = self.flags.get('volumes', []); ....append([staging_root, remote_root])
LaunchVolumes(vols, pair) ==
    (IF vols = NoVolumes THEN <<>> ELSE vols) \o <<pair>>

\* A plausible slip: the container set up before the loop over the mounts
CtorStepLaunchFirst(at, todo) ==
    IF at = "init_staging" THEN "init_staging"
    ELSE IF at = "add" THEN "launch"
    ELSE "none"

\* the statement DockerEnvRemote.__init__ executes next: init_staging, then
\* add for each mount, then the container
CtorStep(at, todo) ==
    IF at = "init_staging" THEN "init_staging"
    ELSE IF at = "add" /\ todo # <<>> THEN "add"
    ELSE IF at = "add" THEN "launch"
    ELSE "none"

\* DockerEnvRemote.__init__, up to and with MountSpace(name=...)
EnvBegin(image, mounts, root, name, vols, now) ==
    /\ pc = "none"
    /\ remote_root' = (IF root = "" THEN DefaultRemoteRoot ELSE root)
    /\ staging_root' = StagingRoot(BeforeColon(image), now)
    /\ mounted' = <<>>
    /\ added' = {}
    /\ requested' = mounts
    /\ pending' = mounts
    /\ callerVolumes' = vols
    /\ supplied' = (IF vols = NoVolumes THEN <<>> ELSE vols)
    /\ flags' = [image |-> image, name |-> name, volumes |-> <<>>]
    /\ pc' = "init_staging"
    /\ last' = [op |-> "DockerEnvRemote"]
    /\ UNCHANGED <<tmpfs, runtimeVars, container, remote_cwd, remote_container, issued, remoteVars, auxVars>>

\* self.mount_space.init_staging()
EnvInitStaging(io) ==
    LET r == InitStagingResult(tmpfs[staging_root], io)
    IN  /\ CtorStep(pc, pending) = "init_staging"
        /\ tmpfs' = [tmpfs EXCEPT ![staging_root] = r.dir]
        /\ pc' = (IF r.raised THEN "failed_staging" ELSE "add")
        /\ last' = [op |-> "init_staging", raised |-> r.raised]
        /\ UNCHANGED <<pathVars, staging_root, runtimeVars, handleVars, callerVolumes,
                       supplied, remote_root, remote_cwd, remote_container,
                       requested, pending, issued, remoteVars, auxVars>>

\* for mount in mounts: self.mount_space.add(mount)
EnvAdd(io) ==
    LET source == Head(pending)
        copied == AddCopy(tmpfs[staging_root], source, io)
    IN  /\ CtorStep(pc, pending) = "add"
        /\ tmpfs' = [tmpfs EXCEPT ![staging_root] = copied.dir]
        /\ mounted' = AddRecord(mounted, source, copied)
        /\ added' = (IF copied.raised THEN added ELSE added \cup {Resolve(source)})
        /\ pending' = Tail(pending)
        /\ pc' = (IF copied.raised THEN "failed_staging" ELSE "add")
        /\ last' = [op |-> "add", source |-> source, raised |-> copied.raised,
                    before |-> tmpfs[staging_root], mountedBefore |-> mounted]
        /\ UNCHANGED <<staging_root, runtimeVars, handleVars, callerVolumes, supplied,
                       remote_root, remote_cwd, remote_container, requested, issued,
                       remoteVars, auxVars>>

\* the requests of a call, each with the staging directory as it is then
Snapshots(calls, dir) ==
    [i \in 1..Len(calls) |-> [req |-> calls[i].req, targets |-> calls[i].targets, dir |-> dir]]

\* setup container: the flags, DockerEnv(**self.flags) and its run_container(),
\* self.remote_container and set_remote_cwd
EnvLaunch(rts) ==
    LET vols == LaunchVolumes(callerVolumes, [src |-> staging_root, dst |-> remote_root])
        fl == [flags EXCEPT !.volumes = vols]
        st == RunContainerResult(containers, NoContainer, fl, nextId, TRUE, rts)
    IN  /\ CtorStep(pc, pending) = "launch"
        /\ (nextId \in Ids(st.containers) => nextId <= MaxIds)
        /\ flags' = fl
        /\ callerVolumes' = (IF callerVolumes = NoVolumes THEN NoVolumes ELSE vols)
        /\ containers' = st.containers
        /\ nextId' = (IF nextId \in Ids(st.containers) THEN nextId + 1 ELSE nextId)
        /\ container' = st.container
        /\ remote_container' = (IF st.raised THEN remote_container ELSE st.container)
        /\ remote_cwd' = (IF st.raised THEN remote_cwd ELSE remote_root)
        /\ pc' = (IF st.raised THEN "failed_launch" ELSE "ready")
        /\ issued' = Snapshots(st.calls, tmpfs[staging_root])
        /\ last' = RunRecord(st, fl, TRUE, TRUE)
        /\ UNCHANGED <<pathVars, fsVars, supplied, remote_root, requested, pending, remoteVars, auxVars>>

\* another user of the runtime launches a container
OtherRun(name) ==
    /\ nextId <= MaxIds
    /\ \A c \in containers : c.name # name
    /\ containers' = containers \cup
           {[id |-> nextId, name |-> name, volumes |-> <<>>, owner |-> "other"]}
    /\ nextId' = nextId + 1
    /\ last' = [op |-> "other"]
    /\ UNCHANGED <<pathVars, fsVars, handleVars, envVars, remoteVars, auxVars>>

\* the containers other users of the runtime left behind
Leftovers ==
    { [id |-> 1, name |-> Web, volumes |-> <<>>, owner |-> "other"],
      [id |-> 2, name |-> Web2, volumes |-> <<>>, owner |-> "other"] }

\* before the environment is constructed: the runtime may hold containers and
\* TMP_ROOT a directory of an earlier run at any staging root
InitEnv ==
    /\ mounted = <<>>
    /\ added = {}
    /\ last = NoCall
    /\ \E d \in {Absent, StaleDir} : tmpfs = [r \in Roots |-> d]
    /\ staging_root = NoRoot
    /\ containers \in SUBSET Leftovers
    /\ nextId = 3
    /\ container = NoContainer
    /\ flags = NoFlags
    /\ callerVolumes = NoVolumes
    /\ supplied = <<>>
    /\ remote_root = ""
    /\ remote_cwd = ""
    /\ remote_container = NoContainer
    /\ pc = "none"
    /\ requested = <<>>
    /\ pending = <<>>
    /\ issued = <<>>
    /\ cmd = NoCmd
    /\ forwarded = NotCalled
    /\ other_root = <<>>
    /\ teardown = <<>>

NextEnv ==
    \/ \E a \in EnvArgs, mounts \in MountLists, name \in {NoName, Web}, now \in Clock :
            EnvBegin(a.image, mounts, a.root, name, a.vols, now)
    \/ \E io \in {"ok", "fail"} : EnvInitStaging(io)
    \/ \E io \in IoOutcomes : EnvAdd(io)
    \/ \E rts \in RtPlans : EnvLaunch(rts)
    \/ \E name \in {Web, Web2} : OtherRun(name)

SpecEnv == InitEnv /\ [][NextEnv]_vars

(***************************************************************************)
(* A caller that constructs one environment after another and hands each   *)
(* the same volume list                                                    *)
(***************************************************************************)
\* DockerEnvRemote(image, volumes=<the list of the environment before>, ...),
\* up to and with MountSpace(name=...)
EnvAgain(now) ==
    /\ pc = "ready"
    /\ callerVolumes # NoVolumes
    /\ Len(callerVolumes) < MaxVolumes
    /\ staging_root' = StagingRoot(BeforeColon(flags.image), now)
    /\ mounted' = <<>>
    /\ added' = {}
    /\ requested' = <<>>
    /\ pending' = <<>>
    /\ supplied' = callerVolumes
    /\ flags' = [flags EXCEPT !.volumes = <<>>]
    /\ issued' = <<>>
    /\ pc' = "init_staging"
    /\ last' = [op |-> "DockerEnvRemote"]
    /\ UNCHANGED <<tmpfs, runtimeVars, container, callerVolumes, remote_root, remote_cwd,
                   remote_container, remoteVars, auxVars>>

NextShared ==
    \/ \E a \in EnvArgs, mounts \in {<<>>, << <<SegA>> >>}, name \in {NoName, Web},
          now \in Clock :
            EnvBegin(a.image, mounts, a.root, name, a.vols, now)
    \/ \E io \in {"ok", "fail"} : EnvInitStaging(io)
    \/ \E io \in IoOutcomes : EnvAdd(io)
    \/ \E rts \in RtPlans : EnvLaunch(rts)
    \/ \E now \in Clock : EnvAgain(now)

SpecShared == InitEnv /\ [][NextShared]_vars

(***************************************************************************)
(* Specification of the Container Handle alone: DockerEnv(image, **flags)  *)
(* and any sequence of calls on it, beside other users of the runtime      *)
(***************************************************************************)
\* DockerEnv.__init__: the flags, no container, the filter, run_container()
HandleNew(image, name, rts) ==
    LET fl == [image |-> image, name |-> name, volumes |-> <<>>]
        st == RunContainerResult(containers, NoContainer, fl, nextId, TRUE, rts)
    IN  /\ pc = "none"
        /\ (nextId \in Ids(st.containers) => nextId <= MaxIds)
        /\ flags' = fl
        /\ containers' = st.containers
        /\ nextId' = (IF nextId \in Ids(st.containers) THEN nextId + 1 ELSE nextId)
        /\ container' = st.container
        /\ pc' = (IF st.raised THEN "failed_launch" ELSE "ready")
        /\ last' = RunRecord(st, fl, TRUE, TRUE)
        /\ UNCHANGED <<pathVars, fsVars, callerVolumes, supplied, remote_root, remote_cwd,
                       remote_container, requested, pending, issued, remoteVars, auxVars>>

\* run_container(force_rerun) on the constructed handle
RunContainer(force_rerun, rts) ==
    LET st == RunContainerResult(containers, container, flags, nextId, force_rerun, rts)
    IN  /\ pc = "ready"
        /\ (nextId \in Ids(st.containers) => nextId <= MaxIds)
        /\ containers' = st.containers
        /\ nextId' = (IF nextId \in Ids(st.containers) THEN nextId + 1 ELSE nextId)
        /\ container' = st.container
        /\ last' = RunRecord(st, flags, force_rerun, FALSE)
        /\ UNCHANGED <<pathVars, fsVars, flags, envVars, remoteVars, auxVars>>

\* remove_container(arg) on the constructed handle
RemoveContainer(arg, rt) ==
    LET r == RemoveContainerResult(containers, container, arg, rt)
    IN  /\ pc = "ready"
        /\ containers' = r.containers
        /\ container' = r.container
        /\ last' = [op |-> "remove_container", result |-> r.result, calls |-> r.calls,
                    raised |-> r.raised, rtFailed |-> r.rtFailed,
                    arg |-> arg, containerBefore |-> container]
        /\ UNCHANGED <<pathVars, fsVars, nextId, flags, envVars, remoteVars, auxVars>>

InitHandle ==
    /\ mounted = <<>>
    /\ added = {}
    /\ last = NoCall
    /\ tmpfs = [r \in Roots |-> Absent]
    /\ staging_root = NoRoot
    /\ containers \in SUBSET Leftovers
    /\ nextId = 3
    /\ container = NoContainer
    /\ flags = NoFlags
    /\ callerVolumes = NoVolumes
    /\ supplied = <<>>
    /\ remote_root = ""
    /\ remote_cwd = ""
    /\ remote_container = NoContainer
    /\ pc = "none"
    /\ requested = <<>>
    /\ pending = <<>>
    /\ issued = <<>>
    /\ cmd = NoCmd
    /\ forwarded = NotCalled
    /\ other_root = <<>>
    /\ teardown = <<>>

NextHandle ==
    \/ \E name \in {NoName, Web}, rts \in RtPlans : HandleNew(SegImg, name, rts)
    \/ \E force_rerun \in BOOLEAN, rts \in RtPlans : RunContainer(force_rerun, rts)
    \/ \E arg \in 0..MaxIds, rt \in RtOutcomes : RemoveContainer(arg, rt)
    \/ \E name \in {Web, Web2} : OtherRun(name)

SpecHandle == InitHandle /\ [][NextHandle]_vars

\* the same handle, constructed with a name, with no other user of the
\* runtime once the program has started
NextSolo ==
    \/ \E rts \in RtPlans : HandleNew(SegImg, Web, rts)
    \/ \E force_rerun \in BOOLEAN, rts \in RtPlans : RunContainer(force_rerun, rts)
    \/ \E arg \in 0..MaxIds, rt \in RtOutcomes : RemoveContainer(arg, rt)

SpecSolo == InitHandle /\ [][NextSolo]_vars

(***************************************************************************)
(* DockerEnvRemote.remote: command normalization                           *)
(***************************************************************************)
\* the characters of the model: space, double quote, single quote, backslash, "x"
Space == <<32>>
DQuote == <<34>>
SQuote == <<39>>
Backslash == <<92>>
LetterX == <<120>>

\* "/bin/bash" and "-c"
BinBash == <<47, 98, 105, 110, 47, 98, 97, 115, 104>>
DashC == <<45, 99>>

IsSpaceChar(c) == c = 32
IsQuoteChar(c) == c = 34 \/ c = 39

\* s has t at position i
HasAt(s, i, t) == i + Len(t) - 1 <= Len(s) /\ SubSeq(s, i, i + Len(t) - 1) = t

\* the first position at or after i that holds no whitespace: \s*
RECURSIVE SkipSpaces(_, _)
SkipSpaces(s, i) ==
    IF i <= Len(s) /\ IsSpaceChar(s[i]) THEN SkipSpaces(s, i + 1) ELSE i

\* the pattern /bin/bash\s*-c\s*["'](.*?)['"] matches s at position i
MatchesAt(s, i) ==
    /\ HasAt(s, i, BinBash)
    /\ LET k == SkipSpaces(s, i + Len(BinBash))
       IN  /\ HasAt(s, k, DashC)
           /\ LET m == SkipSpaces(s, k + Len(DashC))
              IN  /\ m <= Len(s) /\ IsQuoteChar(s[m])
                  /\ \E n \in (m + 1)..Len(s) : IsQuoteChar(s[n])

\* re.search(pattern, cmd): the pattern matches somewhere in the string
ReSearch(s) == \E i \in 1..Len(s) : MatchesAt(s, i)

\* f'/bin/bash -c "{cmd}"'
Wrap(s) == BinBash \o Space \o DashC \o Space \o DQuote \o s \o DQuote

\* the shlex state a quote character opens, and the character that closes it
QuoteState(c) == IF c = 34 THEN "dq" ELSE "sq"
QuoteOf(state) == IF state = "dq" THEN 34 ELSE 39

\* the characters that do not just join the token: in quotes the closing
\* quote (and in double quotes the backslash), elsewhere whitespace, the
\* quotes and the backslash
IsPlain(state, c) ==
    IF state = "dq" THEN c # 34 /\ c # 92
    ELSE IF state = "sq" THEN c # 39
    ELSE ~IsSpaceChar(c) /\ ~IsQuoteChar(c) /\ c # 92

\* the end of the run of plain characters that starts at i
RunEnd(s, i, state) ==
    CHOOSE j \in i..Len(s) :
        /\ \A k \in i..j : IsPlain(state, s[k])
        /\ (j = Len(s) \/ ~IsPlain(state, s[j + 1]))

\* shlex.split(s): the POSIX state machine of shlex.read_token with
\* whitespace_split and no comments. state: "ws" between tokens, "a" in a
\* word, "dq" or "sq" in quotes, "esc" after a backslash (esc_from: the state
\* to go back to); quoted: the token had a quoted part. A run of characters
\* that each only join the token (token += nextchar) is read in one step.
RECURSIVE ShlexRun(_, _, _, _, _, _, _)
ShlexRun(s, i, state, token, quoted, esc_from, out) ==
    IF i > Len(s)
    THEN IF state = "ws" THEN [raised |-> FALSE, tokens |-> out]
         ELSE IF state = "a"
              THEN [raised |-> FALSE,
                    tokens |-> IF token # <<>> \/ quoted THEN Append(out, token) ELSE out]
              ELSE [raised |-> TRUE, tokens |-> <<>>]
    ELSE IF state = "esc"
    THEN IF esc_from # "a" /\ s[i] # 92 /\ s[i] # QuoteOf(esc_from)
         THEN ShlexRun(s, i + 1, esc_from, token \o <<92, s[i]>>, quoted, esc_from, out)
         ELSE ShlexRun(s, i + 1, esc_from, Append(token, s[i]), quoted, esc_from, out)
    ELSE IF IsPlain(state, s[i])
    THEN ShlexRun(s, RunEnd(s, i, state) + 1, IF state = "ws" THEN "a" ELSE state,
                  token \o SubSeq(s, i, RunEnd(s, i, state)), quoted, esc_from, out)
    ELSE IF state = "ws"
    THEN IF IsSpaceChar(s[i]) THEN ShlexRun(s, i + 1, "ws", <<>>, FALSE, "a", out)
         ELSE IF s[i] = 92 THEN ShlexRun(s, i + 1, "esc", <<>>, FALSE, "a", out)
         ELSE ShlexRun(s, i + 1, QuoteState(s[i]), <<>>, TRUE, "a", out)
    ELSE IF state = "a"
    THEN IF IsSpaceChar(s[i])
         THEN ShlexRun(s, i + 1, "ws", <<>>, FALSE, "a",
                       IF token # <<>> \/ quoted THEN Append(out, token) ELSE out)
         ELSE IF s[i] = 92 THEN ShlexRun(s, i + 1, "esc", token, quoted, "a", out)
         ELSE ShlexRun(s, i + 1, QuoteState(s[i]), token, TRUE, esc_from, out)
    ELSE \* in quotes, at the closing quote or at a backslash in double quotes
         IF s[i] = QuoteOf(state) THEN ShlexRun(s, i + 1, "a", token, TRUE, esc_from, out)
         ELSE ShlexRun(s, i + 1, "esc", token, TRUE, state, out)

ShlexSplit(s) == ShlexRun(s, 1, "ws", <<>>, FALSE, "a", <<>>)

\* str.strip()
RECURSIVE StripRight(_)
StripRight(s) ==
    IF s # <<>> /\ IsSpaceChar(s[Len(s)]) THEN StripRight(SubSeq(s, 1, Len(s) - 1)) ELSE s

Strip(s) == StripRight(SubSeq(s, SkipSpaces(s, 1), Len(s)))

\* remote(), the str branch
RemoteStr(s) ==
    LET split == ShlexSplit(IF ReSearch(s) THEN s ELSE Wrap(s))
    IN  [called |-> TRUE, raised |-> split.raised, argv |-> split.tokens]

\* remote(), the Sequence branch; list + tuple raises TypeError
RemoteSeq(kind, v) ==
    IF Len(v) > 2 /\ Strip(v[1]) = BinBash /\ Strip(v[2]) = DashC
    THEN [called |-> TRUE, raised |-> FALSE, argv |-> v]
    ELSE IF kind = "tuple"
    THEN [called |-> TRUE, raised |-> TRUE, argv |-> <<>>]
    ELSE [called |-> TRUE, raised |-> FALSE, argv |-> <<BinBash, DashC>> \o v]

\* DockerEnvRemote.remote up to self.remote_container.execute(cmd)
RemoteResult(c) ==
    IF c.kind = "str" THEN RemoteStr(c.value) ELSE RemoteSeq(c.kind, c.value)

\* the command strings of the model: up to MaxPieces pieces, alone or after
\* the text '/bin/bash -c '
Pieces == { BinBash, DashC, Space, DQuote, SQuote, Backslash, LetterX }

RECURSIVE Concat(_)
Concat(ps) == IF ps = <<>> THEN <<>> ELSE Head(ps) \o Concat(Tail(ps))

PieceStrings ==
    { Concat(ps) : ps \in UNION { [1..n -> Pieces] : n \in 0..MaxPieces } }

CmdStrings ==
    PieceStrings \cup { BinBash \o Space \o DashC \o Space \o s : s \in PieceStrings }

\* the tokens of a command given as a sequence
CmdTokens == { BinBash, Space \o BinBash, DashC, DashC \o Space, LetterX }

CmdSequences == UNION { [1..n -> CmdTokens] : n \in 0..MaxTokens }

\* a constructed environment: the image "img", no mounts, no name, the default
\* remote root, its container the only one in the runtime
ReadyRoot == StagingRoot(SegImg, 1)
ReadyVolumes == <<[src |-> ReadyRoot, dst |-> DefaultRemoteRoot]>>

InitRemote ==
    /\ mounted = <<>>
    /\ added = {}
    /\ last = NoCall
    /\ tmpfs = [r \in Roots |-> IF r = ReadyRoot THEN EmptyDir ELSE Absent]
    /\ staging_root = ReadyRoot
    /\ containers = {[id |-> 1, name |-> AutoName(1), volumes |-> ReadyVolumes,
                      owner |-> "handle"]}
    /\ nextId = 2
    /\ container = 1
    /\ flags = [image |-> SegImg, name |-> NoName, volumes |-> ReadyVolumes]
    /\ callerVolumes = NoVolumes
    /\ supplied = <<>>
    /\ remote_root = DefaultRemoteRoot
    /\ remote_cwd = DefaultRemoteRoot
    /\ remote_container = 1
    /\ pc = "ready"
    /\ requested = <<>>
    /\ pending = <<>>
    /\ issued = <<[req |-> "run", targets |-> {1}, dir |-> EmptyDir]>>
    /\ \/ \E s \in CmdStrings : cmd = [kind |-> "str", value |-> s]
       \/ \E k \in {"list", "tuple"}, v \in CmdSequences : cmd = [kind |-> k, value |-> v]
    /\ forwarded = NotCalled
    /\ other_root = <<>>
    /\ teardown = <<>>

\* env.remote(cmd)
Remote ==
    /\ pc = "ready"
    /\ ~forwarded.called
    /\ forwarded' = RemoteResult(cmd)
    /\ last' = [op |-> "remote"]
    /\ UNCHANGED <<pathVars, fsVars, runtimeVars, handleVars, envVars, cmd, auxVars>>

NextRemote == Remote

SpecRemote == InitRemote /\ [][NextRemote]_vars

(***************************************************************************)
(* The command loop of the program: read a line, leave on 'exit', hand     *)
(* anything else to remote(), and clean up in the finally block            *)
(***************************************************************************)
\* 'exit'
Exit == <<101, 120, 105, 116>>

\* str.lower on ASCII
Lower(s) == [i \in 1..Len(s) |-> IF s[i] \in 65..90 THEN s[i] + 32 ELSE s[i]]

\* cmd.strip().lower() == 'exit'
IsExit(line) == Lower(Strip(line)) = Exit

\* the lines typed: exit, " Exit ", EXIT, x, an unbalanced quote, "exit x"
LoopInputs ==
    { Exit, <<32, 69, 120, 105, 116, 32>>, <<69, 88, 73, 84>>,
      LetterX, DQuote, Exit \o Space \o LetterX }

\* what running the command in the container does: it works, it raises an
\* Exception (a failing command), or the user interrupts it (KeyboardInterrupt,
\* which is no Exception)
ExecOutcomes == { "ok", "fail", "interrupt" }

\* A plausible slip: the inner try left out, so a failing command ends the loop
LoopStepBreaking(line, raised, outcome) ==
    IF IsExit(line) THEN "finally_container"
    ELSE IF raised \/ outcome # "ok" THEN "finally_container"
    ELSE "loop"

\* where the program is after a line was read: break on exit, the inner
\* try/except Exception around env.remote(cmd), anything else escapes to finally
LoopStep(line, raised, outcome) ==
    IF IsExit(line) THEN "finally_container"
    ELSE IF ~raised /\ outcome = "interrupt" THEN "finally_container"
    ELSE "loop"

\* one turn of the loop: cmd = input(...), the exit test, env.remote(cmd)
LoopRead(line, outcome) ==
    LET c == [kind |-> "str", value |-> line]
        r == RemoteResult(c)
    IN  /\ pc = "loop"
        /\ cmd' = c
        /\ forwarded' = (IF IsExit(line) THEN forwarded ELSE r)
        /\ pc' = LoopStep(line, r.raised, outcome)
        /\ last' = [op |-> IF IsExit(line) THEN "exit"
                           ELSE IF ~r.raised /\ outcome = "interrupt" THEN "escape"
                           ELSE "command",
                    failed |-> ~IsExit(line) /\ (r.raised \/ outcome # "ok")]
        /\ UNCHANGED <<pathVars, fsVars, runtimeVars, handleVars, callerVolumes, supplied,
                       remote_root, remote_cwd, remote_container, requested, pending,
                       issued, auxVars>>

\* input() raises (EOFError on a closed stdin, KeyboardInterrupt): the
\* exception leaves the loop
LoopEscape ==
    /\ pc = "loop"
    /\ pc' = "finally_container"
    /\ last' = [op |-> "escape", failed |-> TRUE]
    /\ UNCHANGED <<pathVars, fsVars, runtimeVars, handleVars, callerVolumes, supplied,
                   remote_root, remote_cwd, remote_container, requested, pending,
                   issued, remoteVars, auxVars>>

\* finally: env.remote_env.remove_container()
FinallyContainer(rt) ==
    LET r == RemoveContainerResult(containers, container, NoContainer, rt)
    IN  /\ pc = "finally_container"
        /\ containers' = r.containers
        /\ container' = r.container
        /\ teardown' = Append(teardown, [op |-> "remove_container", ok |-> r.result])
        /\ pc' = (IF r.raised THEN "done" ELSE "finally_staging")
        /\ UNCHANGED <<pathVars, fsVars, last, nextId, flags, callerVolumes, supplied,
                       remote_root, remote_cwd, remote_container, requested, pending,
                       issued, remoteVars, other_root>>

\* finally: env.mount_space.remove_staging()
FinallyStaging ==
    LET r == RemoveStagingResult(tmpfs[staging_root])
    IN  /\ pc = "finally_staging"
        /\ tmpfs' = [tmpfs EXCEPT ![staging_root] = r.dir]
        /\ teardown' = Append(teardown, [op |-> "remove_staging", ok |-> ~r.raised])
        /\ pc' = "done"
        /\ UNCHANGED <<pathVars, staging_root, last, runtimeVars, handleVars, callerVolumes,
                       supplied, remote_root, remote_cwd, remote_container, requested,
                       pending, issued, remoteVars, other_root>>

\* the environment is constructed and the loop entered; the staging root is
\* empty or holds a staged source, and the container is there or was removed
\* behind the program's back
InitLoop ==
    /\ \E staged \in BOOLEAN :
          /\ mounted = (IF staged THEN MountedAdd(<<>>, <<SegA>>, <<SegA>>) ELSE <<>>)
          /\ added = (IF staged THEN {<<SegA>>} ELSE {})
          /\ requested = (IF staged THEN << <<SegA>> >> ELSE <<>>)
          /\ tmpfs = [r \in Roots |->
                        IF r # ReadyRoot THEN Absent
                        ELSE IF staged
                        THEN [exists |-> TRUE,
                              content |-> {[name |-> SegA, from |-> <<SegA>>, complete |-> TRUE]}]
                        ELSE EmptyDir]
    /\ last = NoCall
    /\ staging_root = ReadyRoot
    /\ containers \in { {}, {[id |-> 1, name |-> AutoName(1), volumes |-> ReadyVolumes,
                               owner |-> "handle"]} }
    /\ nextId = 2
    /\ container = 1
    /\ flags = [image |-> SegImg, name |-> NoName, volumes |-> ReadyVolumes]
    /\ callerVolumes = NoVolumes
    /\ supplied = <<>>
    /\ remote_root = DefaultRemoteRoot
    /\ remote_cwd = DefaultRemoteRoot
    /\ remote_container = 1
    /\ pc = "loop"
    /\ pending = <<>>
    /\ issued = <<[req |-> "run", targets |-> {1}, dir |-> EmptyDir]>>
    /\ cmd = NoCmd
    /\ forwarded = NotCalled
    /\ other_root = NoRoot
    /\ teardown = <<>>

NextLoop ==
    \/ \E line \in LoopInputs, outcome \in ExecOutcomes : LoopRead(line, outcome)
    \/ LoopEscape
    \/ \E rt \in RtOutcomes : FinallyContainer(rt)
    \/ FinallyStaging

\* the statements of the finally block are executed one after the other
SpecLoop ==
    /\ InitLoop /\ [][NextLoop]_vars
    /\ WF_vars(\E rt \in RtOutcomes : FinallyContainer(rt))
    /\ WF_vars(FinallyStaging)

(***************************************************************************)
(* Specification of the PathSet alone: any sequence of Mounted.add calls   *)
(***************************************************************************)
InitMounted ==
    /\ mounted = <<>>
    /\ added = {}
    /\ last = NoCall
    /\ tmpfs = [r \in Roots |-> Absent]
    /\ staging_root = NoRoot
    /\ NoEnvironment

AddToMounted(key, value) ==
    /\ Cardinality(added \cup {key}) <= MaxAdds
    /\ mounted' = MountedAdd(mounted, key, value)
    /\ added' = added \cup {key}
    /\ last' = [op |-> "Mounted.add", key |-> key, value |-> value]
    /\ UNCHANGED <<fsVars, runtimeVars, handleVars, envVars, remoteVars, auxVars>>

NextMounted == \E key \in Sources, value \in Stagings : AddToMounted(key, value)

SpecMounted == InitMounted /\ [][NextMounted]_vars

(***************************************************************************)
(* Properties of the PathSet                                               *)
(***************************************************************************)
\* the directory a source names, and "b lies in or under a", stated on segments
Covers(a, b) ==
    LET ra == Resolve(a)
        rb == Resolve(b)
    IN  Len(ra) <= Len(rb) /\ \A i \in 1..Len(ra) : rb[i] = ra[i]

\* b is a filesystem descendant of a (a proper one)
IsDescendant(b, a) == Covers(a, b) /\ Resolve(a) # Resolve(b)

\* no source of S lies in or under another source of S
NonOverlapping(S) == \A p, q \in S : p # q => ~Covers(p, q)

\* C1: when exactly an ancestor A and a descendant B of it have been added,
\* in either order, the PathSet holds the entry for A and no other entry.
C1_AncestorWins ==
    \A a, b \in Sources :
        (IsDescendant(b, a) /\ added = {a, b}) => Keys(mounted) = {a}

\* the descendant was added first and the ancestor last
C1_Witness ==
    /\ last.op = "Mounted.add"
    /\ \E b \in Sources : IsDescendant(b, last.key) /\ added = {last.key, b}
    /\ Keys(mounted) = {last.key}

\* C2: when no added source lies in or under another one, every added source
\* is retained, whatever the order of the adds was.
C2_NonOverlappingRetained ==
    NonOverlapping(added) => Keys(mounted) = added

\* the siblings /a/b, /a/b-c and /a/bc were all added and all are retained
C2_Witness ==
    /\ {<<SegA, SegB>>, <<SegA, SegBdashC>>, <<SegA, SegBC>>} \subseteq added
    /\ NonOverlapping(added)
    /\ Keys(mounted) = added

\* C14: after any sequence of Mounted.add calls no entry's source is a
\* filesystem descendant of another entry's source, and every source that was
\* ever added is present or has an ancestor present.
C14_NoDescendantAllCovered ==
    /\ \A p, q \in Keys(mounted) : ~IsDescendant(q, p)
    /\ \A s \in added : \E k \in Keys(mounted) : Covers(k, s)

\* /a/b, its child /a/b/c and its sibling /a/b-c were added, the child last
\* but one: the child is dropped, the sibling is kept
C14_Witness ==
    /\ last.op = "Mounted.add"
    /\ added = {<<SegA, SegB>>, <<SegA, SegB, SegC>>, <<SegA, SegBdashC>>}
    /\ last.key = <<SegA, SegB>>
    /\ Keys(mounted) = {<<SegA, SegB>>, <<SegA, SegBdashC>>}

(***************************************************************************)
(* Properties of the Container Handle and of the construction              *)
(***************************************************************************)
\* C3: when run_container(force_rerun=True) returns and containers matched
\* the identity filter when it was called, exactly one container matches the
\* filter now, it is the tracked one, and none of the earlier matches is in
\* the runtime any more.
C3_ForceRerunLeavesOne ==
    (last.op = "run_container" /\ last.force_rerun /\ ~last.raised /\ last.matched # {})
        => /\ Ids(Ps(containers, ContainerInfo(flags))) = {container}
           /\ last.matched \cap Ids(containers) = {}

\* the constructor of the handle found two matching containers and returned
C3_Witness ==
    /\ last.op = "run_container" /\ last.ctor /\ last.force_rerun /\ ~last.raised
    /\ Cardinality(last.matched) = 2
    /\ container \in Ids(containers)

\* C4: run_container(force_rerun=False) with more than one match fails with
\* the multiple-containers error, asks the runtime for nothing but the
\* lookup, and leaves the runtime's containers and the tracked reference as
\* they were.
C4_AmbiguousLookupFails ==
    (last.op = "run_container" /\ ~last.force_rerun /\ Cardinality(last.matched) > 1)
        => /\ last.raised /\ last.error = "multiple"
           /\ \A i \in 1..Len(last.calls) : last.calls[i].req = "ps"
           /\ containers = last.containersBefore
           /\ container = last.containerBefore

\* run_container(False) was called on a handle whose filter two containers match
C4_Witness ==
    /\ last.op = "run_container" /\ ~last.force_rerun
    /\ Cardinality(last.matched) = 2
    /\ last.raised
    /\ container # NoContainer

\* C12: remove_container never raises: when the runtime's removal fails it
\* returns False and the tracked reference is as it was; when the removal of
\* the tracked container succeeds it returns True and the reference is
\* cleared; when nothing is tracked and no target is given it returns True
\* without a request to the runtime.
C12_RemoveNeverRaises ==
    (last.op = "remove_container") =>
        LET target == IF last.arg # NoContainer THEN last.arg ELSE last.containerBefore
        IN  /\ ~last.raised
            /\ (last.rtFailed => ~last.result /\ container = last.containerBefore)
            /\ ((target # NoContainer /\ ~last.rtFailed /\ target = last.containerBefore)
                    => last.result /\ container = NoContainer)
            /\ ((last.arg = NoContainer /\ last.containerBefore = NoContainer)
                    => last.result /\ last.calls = <<>>)

\* the runtime refused to remove the tracked container
C12_Witness ==
    /\ last.op = "remove_container"
    /\ last.arg = NoContainer
    /\ last.containerBefore # NoContainer
    /\ last.rtFailed /\ ~last.result
    /\ container = last.containerBefore

\* C16: run_container(force_rerun=False) on a handle whose filter exactly
\* one container matches adopts that container as the tracked one, and asks
\* the runtime neither to create nor to remove a container.
C16_SingleMatchAdopted ==
    (last.op = "run_container" /\ ~last.force_rerun /\ Cardinality(last.matched) = 1)
        => /\ ~last.raised
           /\ container \in last.matched
           /\ \A i \in 1..Len(last.calls) : last.calls[i].req = "ps"
           /\ containers = last.containersBefore

\* a handle that tracked nothing adopted the one container of its name
C16_Witness ==
    /\ last.op = "run_container" /\ ~last.force_rerun
    /\ Cardinality(last.matched) = 1
    /\ last.containerBefore = NoContainer
    /\ container \in Ids(containers)

\* C20: within one run_container(force_rerun=True) on a handle that tracks a
\* live container and has an identity filter, the runtime is asked to remove
\* any given container at most once (the tracked container, removed with the
\* matches of the filter, is not removed a second time), so the call reaches
\* the create step.
C20_RemovedAtMostOnce ==
    (/\ last.op = "run_container" /\ last.force_rerun
     /\ ContainerInfo(flags) # NoName
     /\ last.containerBefore \in Ids(last.containersBefore))
        => /\ \A i, j \in 1..Len(last.calls) :
                 (i < j /\ last.calls[i].req = "remove" /\ last.calls[j].req = "remove")
                     => last.calls[i].targets \cap last.calls[j].targets = {}
           /\ (last.matched \cap Ids(containers) = {}
                 => \E i \in 1..Len(last.calls) : last.calls[i].req = "run")

\* C17: for a single handle with an identity filter and no other user of the
\* runtime, after any sequence of run_container(True), run_container(False)
\* and remove_container calls at most one container matches the filter, and
\* a tracked reference that is not None refers to a container that exists in
\* the runtime.
C17_OneMatchTrackedExists ==
    (pc = "ready")
        => /\ Cardinality(Ps(containers, ContainerInfo(flags))) <= 1
           /\ (container # NoContainer => container \in Ids(containers))

\* the positions of volumes whose host side is a staging root
StagingPairs(volumes) == { i \in DOMAIN volumes : volumes[i].src \in Roots }

\* C18: constructing an environment leaves the volume list the caller
\* supplied as it was, and when one list is handed to two environments the
\* volume list each is launched with holds exactly one pair whose host side
\* is a staging root, the environment's own.
C18_CallerVolumesUntouched ==
    /\ (callerVolumes # NoVolumes => callerVolumes = supplied)
    /\ \A c \in containers :
          c.owner = "handle" =>
              /\ Cardinality(StagingPairs(c.volumes)) = 1
              /\ (c.id = container /\ pc = "ready") =>
                    \A i \in StagingPairs(c.volumes) : c.volumes[i].src = staging_root

\* every requested mount is staged in full in dir
StagedAll(dir, mounts) ==
    /\ dir.exists
    /\ \A i \in 1..Len(mounts) :
          \E e \in dir.content :
              e.name = Name(mounts[i]) /\ e.from = Resolve(mounts[i]) /\ e.complete

\* C8: every request the construction makes to the runtime is made when
\* init_staging and the add of every requested mount have succeeded, and a
\* construction that failed in init_staging or in an add has made no request.
C8_LaunchAfterStaging ==
    /\ \A i \in 1..Len(issued) : StagedAll(issued[i].dir, requested)
    /\ (issued # <<>> => pending = <<>>)
    /\ (pc = "failed_staging" => issued = <<>>)

\* a construction with two mounts removed a container and launched its own
C8_Witness ==
    /\ pc = "ready"
    /\ Len(requested) = 2
    /\ \E i \in 1..Len(issued) : issued[i].req = "remove"
    /\ \E i \in 1..Len(issued) : issued[i].req = "run"

\* C9: every container the handle launches gets the caller's volume pairs
\* followed by the pair (staging_root, remote_root), and a constructed
\* environment has remote_cwd equal to remote_root.
C9_LaunchVolumes ==
    /\ \A c \in containers :
          c.owner = "handle" =>
              c.volumes = supplied \o <<[src |-> staging_root, dst |-> remote_root]>>
    /\ (pc = "ready" => remote_cwd = remote_root /\ remote_root # "")

\* an environment with no mounts and a volume pair of the caller's is constructed
C9_Witness ==
    /\ pc = "ready"
    /\ requested = <<>>
    /\ supplied = <<OtherPair>>
    /\ \E c \in containers : c.id = remote_container /\ c.owner = "handle"

(***************************************************************************)
(* Properties of the command normalization                                 *)
(***************************************************************************)
\* C5: whatever cmd was, the argument vector remote() hands to execute has
\* '/bin/bash' as its first token and '-c' as its second.
C5_AlwaysBashC ==
    (forwarded.called /\ ~forwarded.raised)
        => /\ Len(forwarded.argv) >= 2
           /\ forwarded.argv[1] = BinBash
           /\ forwarded.argv[2] = DashC

\* C6: a list of two or more tokens whose first two are '/bin/bash' and '-c'
\* (whitespace trimmed) is forwarded as it is, and every other list is
\* forwarded with '/bin/bash', '-c' put in front.
C6_TokenSequence ==
    (forwarded.called /\ cmd.kind = "list")
        => /\ ~forwarded.raised
           /\ forwarded.argv =
                IF Len(cmd.value) >= 2 /\ Strip(cmd.value[1]) = BinBash
                                       /\ Strip(cmd.value[2]) = DashC
                THEN cmd.value
                ELSE <<BinBash, DashC>> \o cmd.value

\* the string is '/bin/bash -c' and one quoted argument, and nothing else
IsInvocation(s) ==
    \E q \in {34, 39} :
        \E body \in { SubSeq(s, i, Len(s) - 1) : i \in 1..(Len(s) + 1) } :
            /\ \A k \in 1..Len(body) : body[k] # q /\ body[k] # 92
            /\ s = BinBash \o Space \o DashC \o Space \o <<q>> \o body \o <<q>>

\* C7: a string that is not an explicit '/bin/bash -c "..."' invocation is
\* forwarded as the three tokens '/bin/bash', '-c' and the string itself; one
\* that is such an invocation is forwarded with '/bin/bash', '-c' as its
\* first two tokens and not a second time after them.
C7_StringWrappedOnce ==
    (forwarded.called /\ cmd.kind = "str")
        => /\ ~forwarded.raised
           /\ IF IsInvocation(cmd.value)
              THEN /\ Len(forwarded.argv) >= 2
                   /\ forwarded.argv[1] = BinBash /\ forwarded.argv[2] = DashC
                   /\ ~(Len(forwarded.argv) >= 4 /\ forwarded.argv[3] = BinBash
                                                 /\ forwarded.argv[4] = DashC)
              ELSE forwarded.argv = <<BinBash, DashC, cmd.value>>

(***************************************************************************)
(* Properties of the Mount Staging Space                                   *)
(***************************************************************************)
\* C10: remove_staging is idempotent: whatever the state it is called in, it
\* returns without raising and leaves no directory at staging_root, and a
\* call that directly follows another one changes nothing and does not raise.
C10_RemoveStagingIdempotent ==
    /\ [](last.op = "remove_staging" =>
            ~last.raised /\ ~tmpfs[staging_root].exists)
    /\ [][(last.op = "remove_staging" /\ RemoveStaging) =>
            (tmpfs' = tmpfs /\ mounted' = mounted /\ ~last'.raised)]_vars

\* remove_staging was called twice in a row after sources had been staged
C10_Witness ==
    /\ last.op = "remove_staging"
    /\ last.again
    /\ mounted # <<>>
    /\ ~tmpfs[staging_root].exists

\* C11: when init_staging has returned, the directory at staging_root exists
\* and is empty, whether or not a directory with content was there before
\* (left by an earlier run, or filled by earlier adds of this instance).
C11_InitStagingLeavesEmpty ==
    (last.op = "init_staging" /\ ~last.raised) => tmpfs[staging_root] = EmptyDir

\* init_staging returned on a directory this instance had staged a source into
C11_Witness ==
    /\ last.op = "init_staging" /\ ~last.raised
    /\ \E e \in last.before.content : e.from # <<>>
    /\ mounted # <<>>
    /\ tmpfs[staging_root] = EmptyDir

\* the entries of dir that a successful add staged
StagedEntries(dir) == { e \in dir.content : e.from # <<>> /\ e.complete }

\* C15: MountSpace.add records its entry only when the copy has succeeded:
\* a call whose copy fails raises, leaves the PathSet exactly as it was, and
\* leaves every directory staged by an earlier successful add on disk; a
\* call that returns has staged the source in full.
C15_AddRecordsAfterCopy ==
    (last.op = "add") =>
        /\ (last.raised =>
                /\ mounted = last.mountedBefore
                /\ StagedEntries(last.before) \subseteq StagedEntries(tmpfs[staging_root]))
        /\ (~last.raised =>
                \E e \in StagedEntries(tmpfs[staging_root]) :
                    e.name = Name(last.source) /\ e.from = Resolve(last.source))

\* a copy broke off part of the way after another source had been staged
C15_Witness ==
    /\ last.op = "add" /\ last.raised
    /\ StagedEntries(last.before) # {}
    /\ \E e \in tmpfs[staging_root].content : ~e.complete
    /\ mounted = last.mountedBefore /\ mounted # <<>>

\* C19: two MountSpace instances that are alive at the same time never have
\* the same staging_root, also when they were constructed with the same name
\* at the same reading of the clock, so that init_staging and remove_staging
\* of one never delete what the other has staged.
C19_DistinctRoots ==
    /\ (other_root # NoRoot => other_root # staging_root)
    /\ (last.op \in {"other_init_staging", "other_remove_staging"}
            => tmpfs[staging_root] = last.peerBefore)

\* C21: MountSpace.add of a source whose final path component is the name of
\* a directory already staged (another directory of that name, or the same
\* source once more) fails in the copy, and leaves the PathSet and the
\* staged directories as they were.
C21_NameCollisionFails ==
    (last.op = "add" /\ Name(last.source) \in EntryNames(last.before))
        => /\ last.raised
           /\ mounted = last.mountedBefore
           /\ tmpfs[staging_root] = last.before

\* /a/b/c was added when /c was staged: both are staged as "c"
C21_Witness ==
    /\ last.op = "add" /\ last.raised
    /\ last.source = <<SegA, SegB, SegC>>
    /\ \E e \in last.before.content :
          e.name = SegC /\ e.from = <<SegC>> /\ e.complete
    /\ Keys(mounted) = {<<SegC>>}
    /\ tmpfs[staging_root] = last.before

(***************************************************************************)
(* Properties of the command loop                                          *)
(***************************************************************************)
\* what the finally block has done so far, in order
TeardownOps == [i \in 1..Len(teardown) |-> teardown[i].op]

\* C13: once the loop is entered, every way it ends (the exit token, or an
\* exception that escapes it) is followed by the removal of the container and
\* then the removal of the staging root, in that order; the staging root is
\* removed also when the removal of the container fails; and a command that
\* fails inside the loop does not end the loop.
C13_LoopEndsInCleanup ==
    /\ [](pc = "loop" => teardown = <<>>)
    /\ [](pc = "finally_container" => teardown = <<>>)
    /\ [](pc = "finally_staging" => TeardownOps = <<"remove_container">>)
    /\ [](pc = "done" =>
            /\ TeardownOps = <<"remove_container", "remove_staging">>
            /\ ~tmpfs[staging_root].exists)
    /\ [](pc # "loop" => last.op \in {"exit", "escape"})
    /\ [](last.op = "command" => pc = "loop")
    /\ (pc # "loop" ~> pc = "done")

\* a command failed and the loop went on; after exit the removal of the
\* container failed and the staging root was removed all the same
C13_Witness ==
    /\ pc = "done"
    /\ last.op = "exit"
    /\ forwarded.called /\ forwarded.raised
    /\ ~teardown[1].ok
    /\ teardown[2].op = "remove_staging" /\ teardown[2].ok
    /\ ~tmpfs[staging_root].exists

====
